---- MODULE Spec2Model ----
(***************************************************************************)
(* Layout arithmetic of src/alloc.rs: padding_needed_for, repeat and array *)
(* of the UnstableLayoutMethods extension of core::alloc::Layout, and the  *)
(* diverging helper handle_alloc_error.                                    *)
(*                                                                         *)
(* usize is modelled as an unsigned integer of WordBits bits; every        *)
(* wrapping/checked operation keeps that width.  A behaviour is one call:  *)
(* Init draws the receiver Layout, the usize argument and the build        *)
(* profile, and one of the four functions is then applied to them.         *)
(***************************************************************************)
EXTENDS Integers, FiniteSets, Sequences, TLC

\* Width of usize in the model.
WordBits == 5

UsizeModulus == 2 ^ WordBits

\* core::usize::MAX
UsizeMax == UsizeModulus - 1

Usize == 0 .. UsizeMax

IsPow2(a) == \E k \in 0 .. (WordBits - 1) : a = 2 ^ k

\* The values a Layout's align field can hold (a non-zero power of two).
Aligns == { a \in Usize : IsPow2(a) }

\* Every Layout value the type can carry.  Layout::from_size_align only
\* produces the ones satisfying LayoutInvariant; the unsafe
\* Layout::from_size_align_unchecked (the constructor repeat itself uses)
\* can produce the others, so both kinds are receivers of the methods.
Layouts == [ size : Usize, align : Aligns ]

---------------------------------------------------------------------------
(* usize primitives of core, computed at WordBits bits *)

wrapping_add(a, b) == (a + b) % UsizeModulus

\* Variant: saturating instead of wrapping subtraction.
wrapping_sub_saturating(a, b) == IF a >= b THEN a - b ELSE 0

wrapping_sub(a, b) == (a - b + UsizeModulus) % UsizeModulus

RECURSIVE BitAndBits(_, _, _)
BitAndBits(a, b, k) ==
    IF k = 0 THEN 0
    ELSE (IF a % 2 = 1 /\ b % 2 = 1 THEN 1 ELSE 0)
         + 2 * BitAndBits(a \div 2, b \div 2, k - 1)

\* a & b
BitAnd(a, b) == BitAndBits(a, b, WordBits)

RECURSIVE BitNotBits(_, _)
BitNotBits(a, k) ==
    IF k = 0 THEN 0
    ELSE (1 - (a % 2)) + 2 * BitNotBits(a \div 2, k - 1)

\* !a
BitNot(a) == BitNotBits(a, WordBits)

None == [ some |-> FALSE, val |-> 0 ]

Some(v) == [ some |-> TRUE, val |-> v ]

\* Variant: the addition wraps instead of reporting overflow.
checked_add_wrapping(a, b) == Some((a + b) % UsizeModulus)

checked_add(a, b) == IF a + b > UsizeMax THEN None ELSE Some(a + b)

\* Variant: the multiplication wraps instead of reporting overflow.
checked_mul_wrapping(a, b) == Some((a * b) % UsizeModulus)

\* Variant: the product usize::MAX itself is rejected.
checked_mul_offbyone(a, b) == IF a * b >= UsizeMax THEN None ELSE Some(a * b)

checked_mul(a, b) == IF a * b > UsizeMax THEN None ELSE Some(a * b)

---------------------------------------------------------------------------
(* results of a call *)

NoResult == [ kind |-> "none", size |-> 0, align |-> 0, value |-> 0 ]

\* A plain usize return value.
Value(v) == [ kind |-> "value", size |-> 0, align |-> 0, value |-> v ]

\* Ok((Layout { size, align }, stride)); array drops the stride (value 0).
Ok(size, align, stride) ==
    [ kind |-> "ok", size |-> size, align |-> align, value |-> stride ]

\* The call unwound with a panic instead of returning.
Panic == [ kind |-> "panic", size |-> 0, align |-> 0, value |-> 0 ]

\* Variant: unwrap() instead of unwrap_err(), which panics on the Err.
new_layout_err_unwrap == Panic

\* Err(LayoutErr): Layout::from_size_align(1, 3) is rejected (3 is not a
\* power of two) and unwrap_err yields the error value.
new_layout_err == [ kind |-> "err", size |-> 0, align |-> 0, value |-> 0 ]

\* panic!(...) : never produces a return value.
handle_alloc_error(l) == Panic

---------------------------------------------------------------------------
(* impl UnstableLayoutMethods for Layout *)

\* (len + align - 1) & !(align - 1), all wrapping
len_rounded_up(len, align) ==
    BitAnd(wrapping_sub(wrapping_add(len, align), 1),
           BitNot(wrapping_sub(align, 1)))

\* Variant: the rounding omits the "- 1".
padding_needed_for_nosub(l, align) ==
    wrapping_sub(BitAnd(wrapping_add(l.size, align),
                        BitNot(wrapping_sub(align, 1))),
                 l.size)

padding_needed_for(l, align) ==
    LET len == l.size
    IN  wrapping_sub(len_rounded_up(len, align), len)

\* Variant: the element size is multiplied without its padding.
repeat_unpadded(l, n) ==
    LET alloc_size == checked_mul(l.size, n)
    IN  IF ~alloc_size.some THEN new_layout_err
        ELSE Ok(alloc_size.val, l.align, l.size)

\* Variant: the new Layout is built with padded_size as its align.
repeat_swapped(l, n) ==
    LET padded_size == checked_add(l.size, padding_needed_for(l, l.align))
    IN  IF ~padded_size.some THEN new_layout_err
        ELSE LET alloc_size == checked_mul(padded_size.val, n)
             IN  IF ~alloc_size.some THEN new_layout_err
                 ELSE Ok(alloc_size.val, padded_size.val, padded_size.val)

repeat(l, n) ==
    LET padded_size == checked_add(l.size, padding_needed_for(l, l.align))
    IN  IF ~padded_size.some THEN new_layout_err
        ELSE LET alloc_size == checked_mul(padded_size.val, n)
             IN  IF ~alloc_size.some THEN new_layout_err
                 ELSE Ok(alloc_size.val, l.align, padded_size.val)

\* A type T is described by (mem::size_of::<T>(), mem::align_of::<T>()).
size_align(T) == << T.size, T.align >>

\* Rust types: the size is a multiple of the alignment.
IsType(T) == T.align \in Aligns /\ T.size % T.align = 0

\* Layout::new::<T>()
LayoutNew(T) == [ size |-> size_align(T)[1], align |-> size_align(T)[2] ]

\* Variant: the stride is compared with mem::align_of::<T>().
AssertCondAlign(offs, T) == offs = size_align(T)[2]

\* offs == mem::size_of::<T>()
AssertCond(offs, T) == offs = size_align(T)[1]

\* debug_assert!(cond): evaluated only when debug assertions are compiled in.
debug_assert(cond, dbg) ==
    IF ~dbg THEN "not_evaluated"
    ELSE IF cond THEN "held" ELSE "violated"

\* Variant: the returned layout carries the stride as its size.
array_stride(T, n, dbg) ==
    LET r == repeat(LayoutNew(T), n)
    IN  IF r.kind = "ok"
        THEN LET a == debug_assert(AssertCond(r.value, T), dbg)
             IN  IF a = "violated"
                 THEN [ res |-> Panic, assertion |-> a ]
                 ELSE [ res |-> Ok(r.value, r.align, 0), assertion |-> a ]
        ELSE [ res |-> r, assertion |-> "not_evaluated" ]

\* Result::map runs the closure (and so the assertion) only on Ok.
array(T, n, dbg) ==
    LET r == repeat(LayoutNew(T), n)
    IN  IF r.kind = "ok"
        THEN LET a == debug_assert(AssertCond(r.value, T), dbg)
             IN  IF a = "violated"
                 THEN [ res |-> Panic, assertion |-> a ]
                 ELSE [ res |-> Ok(r.size, r.align, 0), assertion |-> a ]
        ELSE [ res |-> r, assertion |-> "not_evaluated" ]

---------------------------------------------------------------------------
(* state *)

VARIABLES
    layout,            \* the receiver (self); for array, the description of T
    arg,               \* the usize argument: align or n
    debug_assertions,  \* build profile: cfg!(debug_assertions)
    op,                \* the function that was called
    pc,                \* "start", "returned" or "terminated"
    result,            \* what the call produced
    assertion          \* what happened to the debug_assert in array

vars == << layout, arg, debug_assertions, op, pc, result, assertion >>

Ops == { "padding_needed_for", "repeat", "array", "handle_alloc_error" }

TypeOK ==
    /\ layout \in Layouts
    /\ arg \in Usize
    /\ debug_assertions \in BOOLEAN
    /\ op \in Ops \cup { "none" }
    /\ pc \in { "start", "returned", "terminated" }
    /\ result.kind \in { "none", "value", "ok", "err", "panic" }
    /\ assertion \in { "not_evaluated", "held", "violated" }

Init ==
    /\ layout \in Layouts
    /\ arg \in Usize
    /\ debug_assertions \in BOOLEAN
    /\ op = "none"
    /\ pc = "start"
    /\ result = NoResult
    /\ assertion = "not_evaluated"

\* How control leaves a call: a panic does not return to the caller.
Leave(r) == IF r.kind = "panic" THEN "terminated" ELSE "returned"

CallPaddingNeededFor ==
    /\ pc = "start"
    /\ op' = "padding_needed_for"
    /\ result' = Value(padding_needed_for(layout, arg))
    /\ pc' = "returned"
    /\ UNCHANGED << layout, arg, debug_assertions, assertion >>

CallRepeat ==
    /\ pc = "start"
    /\ op' = "repeat"
    /\ result' = repeat(layout, arg)
    /\ pc' = Leave(result')
    /\ UNCHANGED << layout, arg, debug_assertions, assertion >>

CallArray ==
    /\ pc = "start"
    /\ IsType(layout)
    /\ op' = "array"
    /\ LET r == array(layout, arg, debug_assertions)
       IN  /\ result' = r.res
           /\ assertion' = r.assertion
           /\ pc' = Leave(r.res)
    /\ UNCHANGED << layout, arg, debug_assertions >>

CallHandleAllocError ==
    /\ pc = "start"
    /\ op' = "handle_alloc_error"
    /\ result' = handle_alloc_error(layout)
    /\ pc' = Leave(result')
    /\ UNCHANGED << layout, arg, debug_assertions, assertion >>

Next ==
    \/ CallPaddingNeededFor
    \/ CallRepeat
    \/ CallArray
    \/ CallHandleAllocError

Spec == Init /\ [][Next]_vars

---------------------------------------------------------------------------
(* reference arithmetic over the unbounded integers *)

\* The smallest multiple of align that is >= size.
RoundUp(size, align) == ((size + align - 1) \div align) * align

\* The Layout invariant: align is a power of two and size rounded up to
\* align fits in a usize.
LayoutInvariant(l) == IsPow2(l.align) /\ RoundUp(l.size, l.align) <= UsizeMax

\* len + align - 1 exceeds usize::MAX.
RoundingWraps(size, align) == size + align - 1 > UsizeMax

AfterPadding == op = "padding_needed_for" /\ pc = "returned"

AfterRepeat == op = "repeat" /\ pc # "start"

AfterArray == op = "array" /\ pc # "start"

---------------------------------------------------------------------------
\* C1: when align is a power of two and size + align - 1 does not overflow,
\* padding_needed_for returns the smallest p >= 0 with (size + p) a multiple
\* of align; in particular 0 <= p < align.
C1_PaddingIsSmallest ==
    (AfterPadding /\ IsPow2(arg) /\ ~RoundingWraps(layout.size, arg)) =>
        LET p == result.value
        IN  /\ result.kind = "value"
            /\ 0 <= p /\ p < arg
            /\ (layout.size + p) % arg = 0
            /\ \A q \in 0 .. (p - 1) : (layout.size + q) % arg # 0

\* size = 5, align = 4 gives 3.
C1_Witness ==
    AfterPadding /\ layout.size = 5 /\ arg = 4 /\ result.value = 3

\* C2: a successful repeat returns stride = size rounded up to align, a
\* layout of size stride * n (not wrapped) and the receiver's align.
C2_RepeatShape ==
    (AfterRepeat /\ result.kind = "ok") =>
        /\ result.value = RoundUp(layout.size, layout.align)
        /\ result.size = result.value * arg
        /\ result.align = layout.align

\* size = 5, align = 4, n = 3 gives size 24, align 4, stride 8.
C2_Witness ==
    /\ AfterRepeat /\ layout.size = 5 /\ layout.align = 4 /\ arg = 3
    /\ result = Ok(24, 4, 8)

\* C3: repeat returns the error exactly when size + padding overflows or
\* padded_size * n overflows, and a success is never a wrapped value.
C3_RepeatErrorIff ==
    AfterRepeat =>
        LET sum == layout.size + padding_needed_for(layout, layout.align)
        IN  /\ result.kind \in { "ok", "err" }
            /\ result.kind = "err" <=> (sum > UsizeMax \/ sum * arg > UsizeMax)
            /\ result.kind = "ok" => (result.size = sum * arg /\ result.value = sum)

\* size = usize::MAX, align = 1, n = 2 fails.
C3_Witness ==
    /\ AfterRepeat /\ layout.size = UsizeMax /\ layout.align = 1 /\ arg = 2
    /\ result.kind = "err"

\* C4: for a type whose size is a multiple of its alignment and n with
\* size_of * n not overflowing, array succeeds with size size_of * n and
\* align align_of.
C4_ArrayExact ==
    (AfterArray /\ layout.size % layout.align = 0
                /\ layout.size * arg <= UsizeMax) =>
        /\ result.kind = "ok"
        /\ result.size = layout.size * arg
        /\ result.align = layout.align

\* A 4-byte, 4-aligned element with n = 4 gives size 16, align 4.
C4_Witness ==
    /\ AfterArray /\ layout.size = 4 /\ layout.align = 4 /\ arg = 4
    /\ result.kind = "ok" /\ result.size = 16 /\ result.align = 4

\* C5: padding_needed_for always returns a usize, and whenever its rounding
\* wraps for align = layout.align, repeat returns the error for every n.
C5_TwoStageOverflow ==
    /\ op = "padding_needed_for" =>
          (pc = "returned" /\ result.kind = "value" /\ result.value \in Usize)
    /\ (AfterRepeat /\ RoundingWraps(layout.size, layout.align)) =>
          result.kind = "err"

\* The rounding wraps and repeat with n = 0 fails.
C5_Witness ==
    /\ AfterRepeat /\ RoundingWraps(layout.size, layout.align) /\ arg = 0
    /\ result.kind = "err"

\* C6: handle_alloc_error never returns, and padding_needed_for, repeat and
\* array always return a value or the error: they never terminate the way
\* handle_alloc_error does.
C6_OnlyHelperDiverges ==
    /\ op = "handle_alloc_error" => (pc = "terminated" /\ result.kind = "panic")
    /\ op \in { "padding_needed_for", "repeat", "array" } =>
          (pc = "returned" /\ result.kind \in { "value", "ok", "err" })

\* repeat took its error path and still returned to the caller.
C6_Witness ==
    AfterRepeat /\ result.kind = "err" /\ pc = "returned" /\ arg = 3

\* C7: the layout of a successful repeat satisfies the Layout invariant,
\* its size being already a multiple of its align.
C7_RepeatLayoutValid ==
    (AfterRepeat /\ result.kind = "ok" /\ IsPow2(layout.align)) =>
        /\ IsPow2(result.align)
        /\ result.size % result.align = 0
        /\ RoundUp(result.size, result.align) <= UsizeMax

\* A padded element repeated up to the last multiple of align that fits.
C7_Witness ==
    /\ AfterRepeat /\ result.kind = "ok"
    /\ layout.size % layout.align # 0
    /\ result.size + result.align > UsizeMax

\* C8: when size + align - 1 overflows (align a power of two), the overflow
\* is by at most align - 1, the masked rounded value is 0, and the padding p
\* has (size + p) mod 2^w = 0 with 1 <= p < align.
C8_DegeneratePadding ==
    (AfterPadding /\ IsPow2(arg) /\ RoundingWraps(layout.size, arg)) =>
        LET p == result.value
        IN  /\ (layout.size + arg - 1) - UsizeModulus <= arg - 1
            /\ len_rounded_up(layout.size, arg) = 0
            /\ (layout.size + p) % UsizeModulus = 0
            /\ 1 <= p /\ p < arg

\* size = usize::MAX - 1 with align 4: padding 2.
C8_Witness ==
    /\ AfterPadding /\ layout.size = UsizeMax - 1 /\ arg = 4
    /\ result.value = 2

\* C9: the assertion in array holds on every successful call (the size of a
\* type is a multiple of its alignment) and is not evaluated on the error
\* path; the compared stride equals the size exactly when the size is a
\* multiple of the alignment and is larger otherwise.
C9_ArrayAssertion ==
    /\ (AfterArray /\ result.kind = "ok") =>
          /\ assertion # "violated"
          /\ debug_assertions => assertion = "held"
    /\ (AfterArray /\ result.kind # "ok") =>
          (result.kind = "err" /\ assertion = "not_evaluated")
    /\ (AfterRepeat /\ result.kind = "ok") =>
          IF layout.size % layout.align = 0
          THEN AssertCond(result.value, layout)
          ELSE ~AssertCond(result.value, layout) /\ result.value > layout.size

\* A debug build evaluated the assertion and it held.
C9_Witness ==
    /\ AfterArray /\ result.kind = "ok" /\ assertion = "held"
    /\ layout.size = 6 /\ layout.align = 2 /\ arg = 5

\* C10: for a receiver satisfying the Layout invariant the padded-size step
\* does not fail, so repeat fails exactly when padded_size * n overflows;
\* n = 0 gives size 0, n = 1 gives size = stride, and success for n implies
\* success with the same stride for every m <= n.
C10_ValidLayoutRepeat ==
    (AfterRepeat /\ LayoutInvariant(layout)) =>
        LET stride == RoundUp(layout.size, layout.align)
        IN  /\ checked_add(layout.size,
                           padding_needed_for(layout, layout.align)).some
            /\ result.kind = "err" <=> stride * arg > UsizeMax
            /\ result.kind \in { "ok", "err" }
            /\ arg = 0 => (result.kind = "ok" /\ result.size = 0)
            /\ arg = 1 => (result.kind = "ok" /\ result.size = result.value)
            /\ result.kind = "ok" =>
                  \A m \in 0 .. arg :
                      /\ repeat(layout, m).kind = "ok"
                      /\ repeat(layout, m).value = result.value

\* A valid receiver whose padded size is exactly usize::MAX + 1 - align,
\* repeated once.
C10_Witness ==
    /\ AfterRepeat /\ LayoutInvariant(layout) /\ arg = 1
    /\ layout.size % layout.align # 0
    /\ result.kind = "ok" /\ result.size = result.value
    /\ result.size + layout.align = UsizeModulus

====
